---- MODULE Spec2Model ----
(***************************************************************************)
(* A model of the DOMjudge test-case generator:                            *)
(*   src/test_case_generator.py               the orchestrator             *)
(*   src/generators/sorting_generator.py      the sorting strategy         *)
(*   src/generators/binary_search_generator.py the bounded-count strategy  *)
(*   src/generators/graph_generator.py        the graph strategy           *)
(*                                                                         *)
(* Spec     is the whole run of main(): directory creation, compilation,   *)
(*          strategy loading, and the enumeration of the cases.  A file    *)
(*          is represented by what it holds: "missing", "empty" (zero      *)
(*          length) or the kind of non-empty text last written to it.      *)
(* CaseSpec is one call of generate_case of the sorting or of the          *)
(*          binary-search strategy with the text of both files, character  *)
(*          by character.                                                  *)
(* GraphSpec is one call of generate_case of the graph strategy: the edge  *)
(*          list it builds (the tree loop one iteration at a time) and the *)
(*          text of the input file.                                        *)
(***************************************************************************)
EXTENDS Integers, Sequences, FiniteSets, TLC

VARIABLES
    \* ---- the run (Spec) ------------------------------------------------
    solution_file,     \* args.solution_file: "cpp" (ends with .cpp) or "other"
    generator_module,  \* args.generator: which kind of file --generator names
    tree,              \* the directory tree {problem_id}/data/{sample,secret}
    fs,                \* the case files: file name -> what the file holds
    compile_status,    \* what compile_solution did: "pending", "ok", "failed", "no_compiler"
    executable,        \* self.executable: "None" or "path"
    generator,         \* self.generator: "None" or the kind of Generator object
    strategy,          \* the enumeration generate_all_cases runs: "none" until dispatched
    cur,               \* position in the enumeration (1-based)
    log,               \* the generate_case calls made so far: <<scope, case_num>>
    outcome,           \* what the reference run of the current case did
    pc,                \* position of the run
    exit_code,         \* "none" while running, then the exit status: "0" or "1"
    \* ---- one call of generate_case, with the files' text (CaseSpec) ------
    family,            \* whose generate_case: "sorting" or "bsearch"
    params,            \* the params dictionary of the call
    arr,               \* the generated array
    queries,           \* the generated queries (binary search)
    input_text,        \* the input file: [exists, text]
    output_text,       \* the output file: [exists, text]
    written_by,        \* who wrote the output file last: "none", "ref", "fallback"
    cpc,               \* position in generate_case
    \* ---- the graph strategy's generate_case (GraphSpec) -------------------
    edges,             \* the edge list: <<u, v>> or <<u, v, w>>
    m,                 \* the edge count the header line carries
    connected,         \* tree: the nodes already joined
    remaining          \* tree: the nodes still to join

runVars == <<solution_file, generator_module, tree, fs, compile_status, executable,
             generator, strategy, cur, log, outcome, pc, exit_code>>

caseVars == <<family, params, arr, queries, input_text, output_text, written_by, cpc>>

graphVars == <<edges, m, connected, remaining>>

vars == <<runVars, caseVars, graphVars>>

(***************************************************************************)
(* Bounds of the model.                                                    *)
(***************************************************************************)
\* file names sample-N / secret-N are tracked for N in 1..MaxCaseNum
MaxCaseNum == 11

(***************************************************************************)
(* params.get(key, default)                                                *)
(***************************************************************************)
Get(d, key, default) ==
    IF key \in DOMAIN d THEN d[key] ELSE default

Call(case_num, d, is_sample) ==
    [case_num |-> case_num, params |-> d, is_sample |-> is_sample]

(***************************************************************************)
(* The enumerations: the generate_case calls of every generate_all_cases,  *)
(* in program order.                                                       *)
(***************************************************************************)
DefaultCases == <<
    Call(1, [small |-> TRUE], TRUE),
    Call(2, [small |-> TRUE], TRUE),
    Call(1, [corner_case |-> TRUE], FALSE),
    Call(2, [corner_case |-> TRUE, type |-> "min"], FALSE),
    Call(3, [size |-> "medium"], FALSE),
    Call(4, [size |-> "medium", pattern |-> "random"], FALSE),
    Call(5, [size |-> "large"], FALSE),
    Call(6, [size |-> "max", pattern |-> "worst_case"], FALSE),
    Call(7, [size |-> "large", pattern |-> "random"], FALSE),
    Call(8, [size |-> "large", pattern |-> "special"], FALSE) >>

SortingCases == <<
    Call(1, [n |-> 5, max_val |-> 20, min_val |-> 1], TRUE),
    Call(2, [n |-> 10, max_val |-> 100, min_val |-> 1], TRUE),
    Call(1, [n |-> 1, max_val |-> 10^9, min_val |-> 10^9], FALSE),
    Call(2, [n |-> 5, max_val |-> 10, min_val |-> 10, pattern |-> "all_same"], FALSE),
    Call(3, [n |-> 100, max_val |-> 10^5, min_val |-> 1], FALSE),
    Call(4, [n |-> 1000, max_val |-> 10^6, min_val |-> 1], FALSE),
    Call(5, [n |-> 10^5, max_val |-> 10^9, min_val |-> 1], FALSE),
    Call(6, [n |-> 2 * 10^5, max_val |-> 10^9, min_val |-> 1], FALSE),
    Call(7, [n |-> 10^4, max_val |-> 10^9, min_val |-> 1, pattern |-> "random"], FALSE),
    Call(8, [n |-> 10^4, max_val |-> 10^9, min_val |-> 1, pattern |-> "ascending"], FALSE),
    Call(9, [n |-> 10^4, max_val |-> 10^9, min_val |-> 1, pattern |-> "descending"], FALSE),
    Call(10, [n |-> 10^4, max_val |-> 10^9, min_val |-> -10^9,
              pattern |-> "alternating"], FALSE) >>

BinarySearchCases == <<
    Call(1, [n |-> 5, q |-> 3, max_val |-> 20, min_val |-> 1], TRUE),
    Call(2, [n |-> 10, q |-> 5, max_val |-> 100, min_val |-> 1], TRUE),
    Call(1, [n |-> 1, q |-> 1, max_val |-> 10^9, min_val |-> 10^9], FALSE),
    Call(2, [n |-> 5, q |-> 5, max_val |-> 10, min_val |-> 10], FALSE),
    Call(3, [n |-> 100, q |-> 100, max_val |-> 10^5, min_val |-> 1], FALSE),
    Call(4, [n |-> 1000, q |-> 1000, max_val |-> 10^6, min_val |-> 1], FALSE),
    Call(5, [n |-> 10^5, q |-> 10^5, max_val |-> 10^9, min_val |-> 1], FALSE),
    Call(6, [n |-> 2 * 10^5, q |-> 2 * 10^5, max_val |-> 10^9, min_val |-> 1], FALSE),
    Call(7, [n |-> 10^4, q |-> 10^4, max_val |-> 10^9, min_val |-> 1,
             pattern |-> "random"], FALSE),
    Call(8, [n |-> 10^4, q |-> 10^4, max_val |-> 10^9, min_val |-> 1,
             pattern |-> "ascending"], FALSE),
    Call(9, [n |-> 10^4, q |-> 10^4, max_val |-> 10^9, min_val |-> 1,
             pattern |-> "descending"], FALSE),
    Call(10, [n |-> 10^4, q |-> 10^4, max_val |-> 10^9, min_val |-> -10^9], FALSE) >>

\* mutant: the tree case numbered 3, as the line case before it
GraphCasesTreeNumberedAsLine == <<
    Call(1, [n |-> 5, m |-> 7, graph_type |-> "undirected"], TRUE),
    Call(2, [n |-> 7, m |-> 10, graph_type |-> "undirected", weights |-> TRUE], TRUE),
    Call(1, [n |-> 1, m |-> 0, graph_type |-> "undirected"], FALSE),
    Call(2, [n |-> 2, m |-> 1, graph_type |-> "undirected"], FALSE),
    Call(3, [n |-> 50, graph_type |-> "line"], FALSE),
    Call(3, [n |-> 100, graph_type |-> "tree"], FALSE),
    Call(5, [n |-> 20, graph_type |-> "complete", weights |-> TRUE], FALSE),
    Call(6, [n |-> 1000, m |-> 10000, graph_type |-> "undirected", weights |-> TRUE], FALSE),
    Call(7, [n |-> 10000, m |-> 15000, graph_type |-> "undirected"], FALSE),
    Call(8, [n |-> 100000, m |-> 200000, graph_type |-> "undirected"], FALSE),
    Call(9, [n |-> 1000, m |-> 5000, graph_type |-> "directed", weights |-> TRUE], FALSE),
    Call(10, [n |-> 500, graph_type |-> "bipartite", weights |-> TRUE], FALSE) >>

GraphCases == <<
    Call(1, [n |-> 5, m |-> 7, graph_type |-> "undirected"], TRUE),
    Call(2, [n |-> 7, m |-> 10, graph_type |-> "undirected", weights |-> TRUE], TRUE),
    Call(1, [n |-> 1, m |-> 0, graph_type |-> "undirected"], FALSE),
    Call(2, [n |-> 2, m |-> 1, graph_type |-> "undirected"], FALSE),
    Call(3, [n |-> 50, graph_type |-> "line"], FALSE),
    Call(4, [n |-> 100, graph_type |-> "tree"], FALSE),
    Call(5, [n |-> 20, graph_type |-> "complete", weights |-> TRUE], FALSE),
    Call(6, [n |-> 1000, m |-> 10000, graph_type |-> "undirected", weights |-> TRUE], FALSE),
    Call(7, [n |-> 10000, m |-> 15000, graph_type |-> "undirected"], FALSE),
    Call(8, [n |-> 100000, m |-> 200000, graph_type |-> "undirected"], FALSE),
    Call(9, [n |-> 1000, m |-> 5000, graph_type |-> "directed", weights |-> TRUE], FALSE),
    Call(10, [n |-> 500, graph_type |-> "bipartite", weights |-> TRUE], FALSE) >>

CasesOf(s) ==
    CASE s = "sorting" -> SortingCases
      [] s = "bsearch" -> BinarySearchCases
      [] s = "graph"   -> GraphCases
      [] s = "default" -> DefaultCases
      [] OTHER         -> << >>

(***************************************************************************)
(* The file system of the run.  A file name is <<scope, case_num, ext>>.   *)
(* A file holds: "missing" (no such file), "empty" (zero length), or the   *)
(* kind of non-empty text in it: "stale" (left by an earlier run),         *)
(* "input" (the case writer's input), "header" (an input cut short by an   *)
(* exception), "partial" (stdout of a reference run that did not end       *)
(* well), "ref" (the stdout of a successful reference run), "fallback"     *)
(* (the fallback evaluator's output).                                      *)
(***************************************************************************)
Scopes == {"sample", "secret"}

FileNames == Scopes \X (1..MaxCaseNum) \X {"in", "ans"}

ScopeOf(c) == IF c.is_sample THEN "sample" ELSE "secret"

InputFile(c) == <<ScopeOf(c), c.case_num, "in">>

OutputFile(c) == <<ScopeOf(c), c.case_num, "ans">>

Exists(content) == content # "missing"

Size(content) == IF content \in {"missing", "empty"} THEN 0 ELSE 1

ModuleKinds == {"none", "sorting", "bsearch", "graph", "missing_file", "no_class", "no_entry"}

\* the enumeration a command line runs when nothing stops it
EnumerationOf(module) ==
    CASE module \in {"sorting", "bsearch", "graph"} -> module
      [] module \in {"none", "no_entry"}            -> "default"
      [] OTHER                                      -> "none"

\* the files an earlier run of the same command left behind
StaleFs(module) ==
    LET cs == CasesOf(EnumerationOf(module))
        names == {InputFile(cs[i]) : i \in 1..Len(cs)} \cup {OutputFile(cs[i]) : i \in 1..Len(cs)}
    IN  [f \in FileNames |-> IF f \in names THEN "stale" ELSE "missing"]

Init ==
    /\ solution_file \in {"cpp", "other"}
    /\ generator_module \in ModuleKinds
    /\ \/ tree = "absent" /\ fs = [f \in FileNames |-> "missing"]
       \/ tree = "present" /\ fs = StaleFs(generator_module)
    /\ compile_status = "pending"
    /\ executable = "None"
    /\ generator = "None"
    /\ strategy = "none"
    /\ cur = 0
    /\ log = << >>
    /\ outcome = "none"
    /\ pc = "start"
    /\ exit_code = "none"
    /\ family = "none"
    /\ params = << >>
    /\ arr = << >>
    /\ queries = << >>
    /\ input_text = [exists |-> FALSE, text |-> << >>]
    /\ output_text = [exists |-> FALSE, text |-> << >>]
    /\ written_by = "none"
    /\ cpc = "idle"
    /\ edges = << >>
    /\ m = 0
    /\ connected = {}
    /\ remaining = {}

(***************************************************************************)
(* __init__: directories, compilation, strategy loading.                   *)
(***************************************************************************)
MakeDirs ==
    /\ pc = "start"
    /\ tree' = "present"
    /\ pc' = "compile"
    /\ UNCHANGED <<solution_file, generator_module, fs, compile_status, executable,
                   generator, strategy, cur, log, outcome, exit_code>>
    /\ UNCHANGED caseVars
    /\ UNCHANGED graphVars

\* g++ ends with status 0 ("ok"), with another status ("failed": CalledProcessError,
\* caught, exit(1)), or cannot be started ("no_compiler": an OSError nothing catches)
CompileResults == {"ok", "failed", "no_compiler"}

\* mutant: the except block of compile_solution without its exit(1)
CompileEndsRunWithoutExit(result) == result = "no_compiler"

CompileEndsRun(result) == result \in {"failed", "no_compiler"}

CompileSolution ==
    /\ pc = "compile"
    /\ IF solution_file = "cpp"
       THEN \E result \in CompileResults :
              /\ compile_status' = result
              /\ IF CompileEndsRun(result)
                 THEN /\ pc' = "exited"
                      /\ exit_code' = "1"
                      /\ UNCHANGED executable
                 ELSE /\ executable' = IF result = "ok" THEN "path" ELSE executable
                      /\ pc' = "load"
                      /\ UNCHANGED exit_code
       ELSE /\ compile_status' = "skipped"
            /\ pc' = "load"
            /\ UNCHANGED <<executable, exit_code>>
    /\ UNCHANGED <<solution_file, generator_module, tree, fs, generator, strategy,
                   cur, log, outcome>>
    /\ UNCHANGED caseVars
    /\ UNCHANGED graphVars

\* mutant: load_generator_module without the check for a Generator class
LoadResultWithoutClassCheck(module) ==
    CASE module = "missing_file" -> "exit"
      [] OTHER                   -> module

\* load_generator_module: "exit" (exit(1)) or the Generator object it stores
LoadResult(module) ==
    CASE module = "missing_file" -> "exit"
      [] module = "no_class"     -> "exit"
      [] OTHER                   -> module

LoadGeneratorModule ==
    /\ pc = "load"
    /\ IF generator_module # "none"
       THEN IF LoadResult(generator_module) = "exit"
            THEN /\ pc' = "exited"
                 /\ exit_code' = "1"
                 /\ UNCHANGED generator
            ELSE /\ generator' = LoadResult(generator_module)
                 /\ pc' = "main"
                 /\ UNCHANGED exit_code
       ELSE /\ pc' = "main"
            /\ UNCHANGED <<generator, exit_code>>
    /\ UNCHANGED <<solution_file, generator_module, tree, fs, compile_status, executable,
                   strategy, cur, log, outcome>>
    /\ UNCHANGED caseVars
    /\ UNCHANGED graphVars

\* hasattr(self.generator, attr), for attr generate_all_cases or generate_case
HasAttr(g, attr) == g \in {"sorting", "bsearch", "graph"}

GenerateAllCases ==
    /\ pc = "main"
    /\ strategy' = IF generator # "None" /\ HasAttr(generator, "generate_all_cases")
                   THEN generator
                   ELSE "default"
    /\ cur' = 1
    /\ pc' = "call"
    /\ UNCHANGED <<solution_file, generator_module, tree, fs, compile_status, executable,
                   generator, log, outcome, exit_code>>
    /\ UNCHANGED caseVars
    /\ UNCHANGED graphVars

(***************************************************************************)
(* generate_case, one call of the enumeration at a time.                   *)
(***************************************************************************)
CurCase == CasesOf(strategy)[cur]

\* which generate_case runs: a strategy's own, or, under the placeholder enumeration,
\* DOMjudgeTestGenerator.generate_case, which delegates to the generator's generate_case
\* when it has one and to default_generate_case otherwise
CaseImpl ==
    IF strategy = "default"
    THEN IF generator # "None" /\ HasAttr(generator, "generate_case")
         THEN generator
         ELSE "default"
    ELSE strategy

\* random.randint(a, b) raises ValueError on an empty range
RandintRaises(a, b) == a > b

\* whether the array generation of the sorting strategy raises
SortingSynthRaises(d) ==
    LET n == Get(d, "n", 10)
        min_val == Get(d, "min_val", 1)
        max_val == Get(d, "max_val", 100)
        pattern == Get(d, "pattern", "random")
    IN  IF pattern = "alternating"
        THEN \/ n >= 1 /\ RandintRaises(min_val, 0)
             \/ n >= 2 /\ RandintRaises(1, max_val)
        ELSE IF pattern = "all_same"
        THEN RandintRaises(min_val, max_val)
        ELSE n >= 1 /\ RandintRaises(min_val, max_val)

\* whether the array or query generation of the binary-search strategy raises
BinarySearchSynthRaises(d) ==
    LET n == Get(d, "n", 10)
        q == Get(d, "q", 5)
        min_val == Get(d, "min_val", 1)
        max_val == Get(d, "max_val", 100)
        pattern == Get(d, "pattern", "random")
    IN  \/ (n >= 1 \/ pattern = "all_same") /\ RandintRaises(min_val, max_val)
        \/ q >= 1 /\ RandintRaises(min_val - 10, max_val + 10)

SynthRaises(impl, d) ==
    CASE impl = "sorting" -> SortingSynthRaises(d)
      [] impl = "bsearch" -> BinarySearchSynthRaises(d)
      [] OTHER            -> FALSE

\* the call of generate_case, up to the end of the "with open(input_file, 'w')" block
CaseWriteInput ==
    /\ pc = "call"
    /\ cur <= Len(CasesOf(strategy))
    /\ log' = Append(log, <<ScopeOf(CurCase), CurCase.case_num>>)
    /\ outcome' = "none"
    /\ IF SynthRaises(CaseImpl, CurCase.params)
       THEN /\ fs' = [fs EXCEPT ![InputFile(CurCase)] = "header"]
            /\ pc' = "exited"
            /\ exit_code' = "1"
       ELSE /\ fs' = [fs EXCEPT ![InputFile(CurCase)] = "input"]
            /\ pc' = "run"
            /\ UNCHANGED exit_code
    /\ UNCHANGED <<solution_file, generator_module, tree, compile_status, executable,
                   generator, strategy, cur>>
    /\ UNCHANGED caseVars
    /\ UNCHANGED graphVars

\* default_generate_case runs the reference program only "if self.executable"
RunnerCalled == CaseImpl # "default" \/ executable # "None"

CaseSkipReference ==
    /\ pc = "run"
    /\ ~RunnerCalled
    /\ pc' = "check"
    /\ UNCHANGED <<solution_file, generator_module, tree, fs, compile_status, executable,
                   generator, strategy, cur, log, outcome, exit_code>>
    /\ UNCHANGED caseVars
    /\ UNCHANGED graphVars

(***************************************************************************)
(* generate_output_from_solution.  The reference program, once started,    *)
(* ends with status 0 having written something ("ok") or nothing           *)
(* ("ok_empty"), runs into the timeout or ends with another status; or     *)
(* subprocess.run cannot start it ("os_error").  With self.executable None *)
(* subprocess.run([None]) raises TypeError.                                *)
(***************************************************************************)
RunOutcomes == {"ok", "ok_empty", "timeout", "nonzero", "os_error"}

Degraded == {"timeout", "nonzero"}

\* the exceptions generate_output_from_solution does not catch
Uncaught == {"os_error", "type_error"}

\* what the child has written to the output file, opened with 'w', when subprocess.run ends
ChildOutput(o) ==
    CASE o = "ok"         -> {"ref"}
      [] o \in Degraded   -> {"empty", "partial"}
      [] OTHER            -> {"empty"}

\* mutant: the except blocks without open(output_file, 'w').close()
AfterRunWithoutTruncation(o, child) == child

\* the output file when generate_output_from_solution ends: both except blocks
\* truncate it with open(output_file, 'w').close()
AfterRun(o, child) == IF o \in Degraded THEN "empty" ELSE child

CaseRunReference ==
    /\ pc = "run"
    /\ RunnerCalled
    /\ \E o \in (IF executable = "None" THEN {"type_error"} ELSE RunOutcomes) :
         \E child \in ChildOutput(o) :
           /\ outcome' = o
           /\ fs' = [fs EXCEPT ![OutputFile(CurCase)] = AfterRun(o, child)]
           /\ IF o \in Uncaught
              THEN pc' = "exited" /\ exit_code' = "1"
              ELSE pc' = "check" /\ UNCHANGED exit_code
    /\ UNCHANGED <<solution_file, generator_module, tree, compile_status, executable,
                   generator, strategy, cur, log>>
    /\ UNCHANGED caseVars
    /\ UNCHANGED graphVars

\* the strategies whose generate_case has a fallback evaluator
HasFallback(impl) == impl \in {"sorting", "bsearch"}

\* mutant: the fallback condition without the test of the size
NeedsFallbackOnlyWhenMissing(content) == ~Exists(content)

\* mutant: the fallback without its condition
NeedsFallbackAlways(content) == TRUE

\* not os.path.exists(output_file) or os.path.getsize(output_file) == 0
NeedsFallback(content) == ~Exists(content) \/ Size(content) = 0

\* whether generate_output_with_python raises on the input written for the parameters d:
\* the binary-search evaluator skips the array line when n = 0 and then parses
\* that empty line as q
FallbackRaises(impl, d) == impl = "bsearch" /\ Get(d, "n", 10) = 0

\* what the fallback leaves in the output file: a line of values (sorting), or one
\* line per query, which is nothing at all when q = 0 (binary search)
FallbackOutput(impl, d) ==
    IF impl = "bsearch" /\ Get(d, "q", 5) = 0 THEN "empty" ELSE "fallback"

CaseFallback ==
    /\ pc = "check"
    /\ HasFallback(CaseImpl)
    /\ NeedsFallback(fs[OutputFile(CurCase)])
    /\ IF FallbackRaises(CaseImpl, CurCase.params)
       THEN /\ pc' = "exited"
            /\ exit_code' = "1"
            /\ UNCHANGED fs
       ELSE /\ fs' = [fs EXCEPT ![OutputFile(CurCase)] =
                                  FallbackOutput(CaseImpl, CurCase.params)]
            /\ pc' = "ret"
            /\ UNCHANGED exit_code
    /\ UNCHANGED <<solution_file, generator_module, tree, compile_status, executable,
                   generator, strategy, cur, log, outcome>>
    /\ UNCHANGED caseVars
    /\ UNCHANGED graphVars

CaseNoFallback ==
    /\ pc = "check"
    /\ ~(HasFallback(CaseImpl) /\ NeedsFallback(fs[OutputFile(CurCase)]))
    /\ pc' = "ret"
    /\ UNCHANGED <<solution_file, generator_module, tree, fs, compile_status, executable,
                   generator, strategy, cur, log, outcome, exit_code>>
    /\ UNCHANGED caseVars
    /\ UNCHANGED graphVars

\* print("Generated ...") and return to generate_all_cases
CaseReturn ==
    /\ pc = "ret"
    /\ cur' = cur + 1
    /\ outcome' = "none"
    /\ pc' = "call"
    /\ UNCHANGED <<solution_file, generator_module, tree, fs, compile_status, executable,
                   generator, strategy, log, exit_code>>
    /\ UNCHANGED caseVars
    /\ UNCHANGED graphVars

\* generate_all_cases and main return: the process ends with status 0
Finish ==
    /\ pc = "call"
    /\ cur > Len(CasesOf(strategy))
    /\ pc' = "done"
    /\ exit_code' = "0"
    /\ UNCHANGED <<solution_file, generator_module, tree, fs, compile_status, executable,
                   generator, strategy, cur, log, outcome>>
    /\ UNCHANGED caseVars
    /\ UNCHANGED graphVars

Next ==
    \/ MakeDirs
    \/ CompileSolution
    \/ LoadGeneratorModule
    \/ GenerateAllCases
    \/ CaseWriteInput
    \/ CaseSkipReference
    \/ CaseRunReference
    \/ CaseFallback
    \/ CaseNoFallback
    \/ CaseReturn
    \/ Finish

Spec == Init /\ [][Next]_vars

(***************************************************************************)
(* One call of generate_case with the text of the files (CaseSpec).        *)
(* A text is a sequence of one-character strings.                          *)
(***************************************************************************)
\* array lengths 0..MaxN, value ranges of 1..MaxWidth values (sorting strategy)
MaxN == 3

MaxWidth == 3

\* array lengths, range widths and query counts of the binary-search strategy
MaxNB == 2

MaxWidthB == 2

MaxQ == 1

DigitChars == <<"0", "1", "2", "3", "4", "5", "6", "7", "8", "9">>

RECURSIVE Digits(_)
Digits(k) ==
    IF k < 10 THEN <<DigitChars[k + 1]>>
    ELSE Digits(k \div 10) \o <<DigitChars[(k % 10) + 1]>>

\* str(i) of an int
Str(i) == IF i < 0 THEN <<"-">> \o Digits(-i) ELSE Digits(i)

\* sep.join(map(str, a))
RECURSIVE Join(_, _)
Join(sep, a) ==
    IF a = << >> THEN << >>
    ELSE IF Len(a) = 1 THEN Str(a[1])
    ELSE Str(a[1]) \o sep \o Join(sep, Tail(a))

Whitespace == {" ", "\n"}

\* the lines f.readline() returns one after the other, each with its "\n"
RECURSIVE Lines(_)
Lines(text) ==
    IF text = << >> THEN << >>
    ELSE IF \E i \in 1..Len(text) : text[i] = "\n"
         THEN LET k == CHOOSE i \in 1..Len(text) :
                         text[i] = "\n" /\ \A j \in 1..(i - 1) : text[j] # "\n"
              IN  <<SubSeq(text, 1, k)>> \o Lines(SubSeq(text, k + 1, Len(text)))
         ELSE <<text>>

\* the k-th f.readline() of a file read from its start: "" at the end of the file
ReadLine(text, k) == IF k <= Len(Lines(text)) THEN Lines(text)[k] ELSE << >>

\* str.strip()
RECURSIVE Strip(_)
Strip(t) ==
    IF t = << >> THEN t
    ELSE IF Head(t) \in Whitespace THEN Strip(Tail(t))
    ELSE IF t[Len(t)] \in Whitespace THEN Strip(SubSeq(t, 1, Len(t) - 1))
    ELSE t

\* str.split(): the maximal runs of non-whitespace characters
RECURSIVE SplitFrom(_, _)
SplitFrom(t, word) ==
    IF t = << >> THEN (IF word = << >> THEN << >> ELSE <<word>>)
    ELSE IF Head(t) \in Whitespace
         THEN (IF word = << >> THEN << >> ELSE <<word>>) \o SplitFrom(Tail(t), << >>)
         ELSE SplitFrom(Tail(t), Append(word, Head(t)))

Split(t) == SplitFrom(t, << >>)

\* whether int(t) succeeds (for the characters a case file holds), and its value
IsIntLiteral(t) ==
    /\ t # << >>
    /\ LET d == IF Head(t) = "-" THEN Tail(t) ELSE t
       IN  /\ d # << >>
           /\ \A i \in 1..Len(d) : \E k \in 1..10 : DigitChars[k] = d[i]

RECURSIVE DigitsValue(_)
DigitsValue(d) ==
    IF d = << >> THEN 0
    ELSE 10 * DigitsValue(SubSeq(d, 1, Len(d) - 1))
         + ((CHOOSE k \in 1..10 : DigitChars[k] = d[Len(d)]) - 1)

ParseInt(t) == IF Head(t) = "-" THEN -DigitsValue(Tail(t)) ELSE DigitsValue(t)

\* list(map(int, tokens))
ParseInts(tokens) == [i \in 1..Len(tokens) |-> ParseInt(tokens[i])]

AllIntLiterals(tokens) == \A i \in 1..Len(tokens) : IsIntLiteral(tokens[i])

(***************************************************************************)
(* Lists.                                                                  *)
(***************************************************************************)
RECURSIVE Insert(_, _)
Insert(x, a) ==
    IF a = << >> THEN <<x>>
    ELSE IF x <= Head(a) THEN <<x>> \o a
    ELSE <<Head(a)>> \o Insert(x, Tail(a))

\* sorted(a): ascending order of ints
RECURSIVE Sorted(_)
Sorted(a) == IF a = << >> THEN << >> ELSE Insert(Head(a), Sorted(Tail(a)))

\* mutant: a sort that keeps one copy of equal values, as list(set(a)) sorted
RECURSIVE InsertDistinct(_, _)
InsertDistinct(x, a) ==
    IF a = << >> THEN <<x>>
    ELSE IF x = Head(a) THEN a
    ELSE IF x < Head(a) THEN <<x>> \o a
    ELSE <<Head(a)>> \o InsertDistinct(x, Tail(a))

RECURSIVE ListSortDistinct(_)
ListSortDistinct(a) ==
    IF a = << >> THEN << >> ELSE InsertDistinct(Head(a), ListSortDistinct(Tail(a)))

\* arr.sort() of the fallback evaluators
ListSort(a) == Sorted(a)

Reverse(a) == [i \in 1..Len(a) |-> a[Len(a) + 1 - i]]

\* mutant: reverse=True forgotten
SortedReverseForgotten(a) == Sorted(a)

\* sorted(a, reverse=True)
SortedReverse(a) == Reverse(Sorted(a))

\* arr[i], arr[j] = arr[j], arr[i]  (1-based here)
Swap(a, i, j) == [a EXCEPT ![i] = a[j], ![j] = a[i]]

Min(x, y) == IF x <= y THEN x ELSE y

(***************************************************************************)
(* The pattern synthesizer: the arrays each shape can produce.             *)
(***************************************************************************)
\* the values random.randint(a, b) can return
Randint(a, b) == a..b

\* mutant: the upper end taken as one more, as with a bound that is meant exclusive
RandomArraysPastMax(n, lo, hi) == [1..n -> Randint(lo, hi + 1)]

\* [random.randint(min_val, max_val) for _ in range(n)]
RandomArrays(n, lo, hi) == [1..n -> Randint(lo, hi)]

AscendingArrays(n, lo, hi) == {Sorted(a) : a \in RandomArrays(n, lo, hi)}

DescendingArrays(n, lo, hi) == {SortedReverse(a) : a \in RandomArrays(n, lo, hi)}

\* [random.randint(min_val, max_val)] * n
AllSameArrays(n, lo, hi) == {[i \in 1..n |-> v] : v \in Randint(lo, hi)}

\* position i of range(n) is index i + 1 here: even positions from [min_val, 0],
\* odd positions from [1, max_val]
AlternatingArrays(n, lo, hi) ==
    {a \in [1..n -> Randint(lo, 0) \cup Randint(1, hi)] :
        \A i \in 1..n : a[i] \in (IF (i - 1) % 2 = 0 THEN Randint(lo, 0) ELSE Randint(1, hi))}

\* for _ in range(k): i, j = random.sample(range(n), 2); swap
RECURSIVE SwapTimes(_, _, _)
SwapTimes(S, k, n) ==
    IF k = 0 THEN S
    ELSE SwapTimes({Swap(a, p[1], p[2]) :
                       a \in S, p \in {pp \in (1..n) \X (1..n) : pp[1] # pp[2]}},
                   k - 1, n)

AlmostSortedArrays(n, lo, hi) ==
    SwapTimes(AscendingArrays(n, lo, hi), Min(5, n \div 10), n)

\* the if/elif chain of the sorting strategy
SortingArrays(n, lo, hi, pattern) ==
    CASE pattern = "random"        -> RandomArrays(n, lo, hi)
      [] pattern = "ascending"     -> AscendingArrays(n, lo, hi)
      [] pattern = "descending"    -> DescendingArrays(n, lo, hi)
      [] pattern = "all_same"      -> AllSameArrays(n, lo, hi)
      [] pattern = "alternating"   -> AlternatingArrays(n, lo, hi)
      [] pattern = "almost_sorted" -> AlmostSortedArrays(n, lo, hi)
      [] OTHER                     -> RandomArrays(n, lo, hi)

\* the if/elif chain of the binary-search strategy
BinarySearchArrays(n, lo, hi, pattern) ==
    CASE pattern = "random"     -> RandomArrays(n, lo, hi)
      [] pattern = "ascending"  -> AscendingArrays(n, lo, hi)
      [] pattern = "descending" -> DescendingArrays(n, lo, hi)
      [] pattern = "all_same"   -> AllSameArrays(n, lo, hi)
      [] OTHER                  -> RandomArrays(n, lo, hi)

\* [random.randint(min_val-10, max_val+10) for _ in range(q)]
QueryLists(q, lo, hi) == [1..q -> Randint(lo - 10, hi + 10)]

(***************************************************************************)
(* The case writer: the text of the input file.                            *)
(***************************************************************************)
NoFile == [exists |-> FALSE, text |-> << >>]

File(text) == [exists |-> TRUE, text |-> text]

\* f.write(f"{n}\n"), all that is written when the generation raises
HeaderText(n) == Str(n) \o <<"\n">>

SortingInputText(n, a) == HeaderText(n) \o Join(<<" ">>, a) \o <<"\n">>

RECURSIVE QueryLinesText(_)
QueryLinesText(qs) ==
    IF qs = << >> THEN << >> ELSE Str(Head(qs)) \o <<"\n">> \o QueryLinesText(Tail(qs))

BinarySearchInputText(n, a, q, qs) ==
    HeaderText(n) \o Join(<<" ">>, a) \o <<"\n">> \o Str(q) \o <<"\n">> \o QueryLinesText(qs)

(***************************************************************************)
(* The fallback evaluators: generate_output_with_python, from the text of  *)
(* the input file to [raised, text], the text written to the output file.  *)
(***************************************************************************)
Raised == [raised |-> TRUE, text |-> << >>]

Written(text) == [raised |-> FALSE, text |-> text]

SortingOutputWithPython(text) ==
    LET first == Strip(ReadLine(text, 1))
    IN  IF ~IsIntLiteral(first) THEN Raised
        ELSE LET n == ParseInt(first)
                 tokens == IF n = 0 THEN << >> ELSE Split(Strip(ReadLine(text, 2)))
             IN  IF ~AllIntLiterals(tokens) THEN Raised
                 ELSE Written(Join(<<" ">>, ListSort(ParseInts(tokens))) \o <<"\n">>)

\* pos = 0; while pos < n and arr[pos] <= query: pos += 1
RECURSIVE UpperBound(_, _, _, _)
UpperBound(a, n, query, pos) ==
    IF pos < n /\ a[pos + 1] <= query THEN UpperBound(a, n, query, pos + 1) ELSE pos

\* arr[pos] is read past the end of arr: IndexError
UpperBoundRaises(a, n, query) ==
    n > Len(a) /\ \A i \in 1..Len(a) : a[i] <= query

RECURSIVE AnswerLinesText(_, _, _)
AnswerLinesText(a, n, qs) ==
    IF qs = << >> THEN << >>
    ELSE Str(UpperBound(a, n, Head(qs), 0)) \o <<"\n">> \o AnswerLinesText(a, n, Tail(qs))

BinarySearchOutputWithPython(text) ==
    LET first == Strip(ReadLine(text, 1))
    IN  IF ~IsIntLiteral(first) THEN Raised
        ELSE LET n == ParseInt(first)
                 \* the array line is read only when n is not 0
                 tokens == IF n = 0 THEN << >> ELSE Split(Strip(ReadLine(text, 2)))
                 qline == IF n = 0 THEN 2 ELSE 3
                 qtext == Strip(ReadLine(text, qline))
             IN  IF ~AllIntLiterals(tokens) \/ ~IsIntLiteral(qtext) THEN Raised
                 ELSE LET q == ParseInt(qtext)
                          qtokens == [i \in 1..q |-> Strip(ReadLine(text, qline + i))]
                      IN  IF ~AllIntLiterals(qtokens) THEN Raised
                          ELSE LET a == ListSort(ParseInts(tokens))
                                   qs == ParseInts(qtokens)
                               IN  IF \E i \in 1..Len(qs) : UpperBoundRaises(a, n, qs[i])
                                   THEN Raised
                                   ELSE Written(AnswerLinesText(a, n, qs))

(***************************************************************************)
(* CaseSpec: the parameters are drawn from bounded sets with               *)
(* min_val <= max_val, then generate_case runs its steps.                  *)
(***************************************************************************)
\* the length from which min(5, n // 10) swaps at least once
AlmostSortedMinN == 10

\* range widths tried with arrays of AlmostSortedMinN elements
BigWidth == 2

\* the least values of the ranges
Los == {-10, -1, 0, 1, 9}

LosB == {-1}

Patterns == {"random", "ascending", "descending", "all_same", "alternating",
             "almost_sorted", "zigzag"}

WithPattern(base) == {base} \cup {base @@ [pattern |-> t] : t \in Patterns}

SortingParams ==
    UNION {WithPattern([n |-> len, min_val |-> lo, max_val |-> lo + w - 1]) :
              len \in 0..MaxN, lo \in Los, w \in 1..MaxWidth}
    \cup {[n |-> AlmostSortedMinN, min_val |-> 0, max_val |-> w - 1, pattern |-> "almost_sorted"] :
              w \in 1..BigWidth}

BinarySearchParams ==
    UNION {WithPattern([n |-> len, q |-> qn, min_val |-> lo, max_val |-> lo + w - 1]) :
              len \in 0..MaxNB, qn \in 0..MaxQ, lo \in LosB, w \in 1..MaxWidthB}

RunIdle ==
    /\ solution_file = "cpp"
    /\ generator_module = "none"
    /\ tree = "present"
    /\ fs = [f \in FileNames |-> "missing"]
    /\ compile_status = "ok"
    /\ executable = "path"
    /\ generator = "None"
    /\ strategy = "none"
    /\ cur = 0
    /\ log = << >>
    /\ outcome = "none"
    /\ pc = "idle"
    /\ exit_code = "none"

CaseInit ==
    /\ RunIdle
    /\ \/ family = "sorting" /\ params \in SortingParams
       \/ family = "bsearch" /\ params \in BinarySearchParams
    /\ arr = << >>
    /\ queries = << >>
    /\ input_text = NoFile
    /\ output_text = NoFile
    /\ written_by = "none"
    /\ cpc = "gen"
    /\ edges = << >>
    /\ m = 0
    /\ connected = {}
    /\ remaining = {}

\* sorting_generator.py, generate_case up to the end of the "with" block
SortingGenerateInput ==
    /\ cpc = "gen"
    /\ family = "sorting"
    /\ LET n == Get(params, "n", 10)
           min_val == Get(params, "min_val", 1)
           max_val == Get(params, "max_val", 100)
           pattern == Get(params, "pattern", "random")
       IN  IF SortingSynthRaises(params)
           THEN /\ input_text' = File(HeaderText(n))
                /\ cpc' = "synth_raised"
                /\ UNCHANGED arr
           ELSE \E a \in SortingArrays(n, min_val, max_val, pattern) :
                  /\ arr' = a
                  /\ input_text' = File(SortingInputText(n, a))
                  /\ cpc' = "run"
    /\ UNCHANGED <<family, params, queries, output_text, written_by>>
    /\ UNCHANGED runVars
    /\ UNCHANGED graphVars

\* binary_search_generator.py, generate_case up to the end of the "with" block
BinarySearchGenerateInput ==
    /\ cpc = "gen"
    /\ family = "bsearch"
    /\ LET n == Get(params, "n", 10)
           q == Get(params, "q", 5)
           min_val == Get(params, "min_val", 1)
           max_val == Get(params, "max_val", 100)
           pattern == Get(params, "pattern", "random")
       IN  IF BinarySearchSynthRaises(params)
           THEN /\ input_text' = File(HeaderText(n))
                /\ cpc' = "synth_raised"
                /\ UNCHANGED <<arr, queries>>
           ELSE \E a \in BinarySearchArrays(n, min_val, max_val, pattern) :
                  \E qs \in QueryLists(q, min_val, max_val) :
                    /\ arr' = a
                    /\ queries' = qs
                    /\ input_text' = File(BinarySearchInputText(n, a, q, qs))
                    /\ cpc' = "run"
    /\ UNCHANGED <<family, params, output_text, written_by>>
    /\ UNCHANGED runVars
    /\ UNCHANGED graphVars

\* some non-empty standard output of a reference program
ReferenceText == <<"4", "2", "\n">>

\* generate_output_from_solution with a reference program that starts: the output
\* file holds its stdout when it ends with status 0 and is empty otherwise
RunReferenceOnText ==
    /\ cpc = "run"
    /\ \E o \in RunOutcomes \ Uncaught :
         /\ output_text' = IF o = "ok" THEN File(ReferenceText) ELSE File(<< >>)
         /\ written_by' = IF o = "ok" THEN "ref" ELSE "none"
    /\ cpc' = "check"
    /\ UNCHANGED <<family, params, arr, queries, input_text>>
    /\ UNCHANGED runVars
    /\ UNCHANGED graphVars

\* not os.path.exists(output_file) or os.path.getsize(output_file) == 0
NeedsFallbackOnText == ~output_text.exists \/ Len(output_text.text) = 0

GenerateOutputWithPython ==
    IF family = "sorting" THEN SortingOutputWithPython(input_text.text)
    ELSE BinarySearchOutputWithPython(input_text.text)

FallbackOnText ==
    /\ cpc = "check"
    /\ NeedsFallbackOnText
    /\ IF GenerateOutputWithPython.raised
       THEN /\ cpc' = "fallback_raised"
            /\ UNCHANGED <<output_text, written_by>>
       ELSE /\ output_text' = File(GenerateOutputWithPython.text)
            /\ written_by' = "fallback"
            /\ cpc' = "done"
    /\ UNCHANGED <<family, params, arr, queries, input_text>>
    /\ UNCHANGED runVars
    /\ UNCHANGED graphVars

NoFallbackOnText ==
    /\ cpc = "check"
    /\ ~NeedsFallbackOnText
    /\ cpc' = "done"
    /\ UNCHANGED <<family, params, arr, queries, input_text, output_text, written_by>>
    /\ UNCHANGED runVars
    /\ UNCHANGED graphVars

CaseNext ==
    \/ SortingGenerateInput
    \/ BinarySearchGenerateInput
    \/ RunReferenceOnText
    \/ FallbackOnText
    \/ NoFallbackOnText

CaseSpec == CaseInit /\ [][CaseNext]_vars

(***************************************************************************)
(* The graph strategy: graph_generator.py, generate_case.                  *)
(***************************************************************************)
\* node counts tried with the topologies that draw nothing or draw a tree
MaxTreeNodes == 5

\* node counts and requested edge counts tried with the sampled topologies
MaxNodes == 3

MaxM == 3

\* node counts tried with weights, and the greatest weight
MaxWeightedNodes == 2

MaxWeight == 2

\* list(range(a, b))
Range(a, b) == [i \in 1..(b - a) |-> a + i - 1]

\* [(u, v) for v in vs]
RowOf(u, vs) == [k \in 1..Len(vs) |-> <<u, vs[k]>>]

\* the rows of a nested comprehension, one after the other
RECURSIVE Flatten(_)
Flatten(rows) == IF rows = << >> THEN << >> ELSE Head(rows) \o Flatten(Tail(rows))

\* [(i, i+1) for i in range(1, n)]
LineEdges(n) == [i \in 1..(n - 1) |-> <<i, i + 1>>]

\* [(i, j) for i in range(1, n+1) for j in range(i+1, n+1)]
CompleteEdges(n) == Flatten([i \in 1..n |-> RowOf(i, Range(i + 1, n + 1))])

\* [(i, j) for i in range(1, n+1) for j in range(1, n+1) if i != j]
DirectedPossibleEdges(n) ==
    Flatten([i \in 1..n |-> RowOf(i, SelectSeq(Range(1, n + 1), LAMBDA j : j # i))])

\* [(u, v) for u in part1 for v in part2]
BipartitePossibleEdges(part1, part2) ==
    Flatten([k \in 1..Len(part1) |-> RowOf(part1[k], part2)])

\* the list without its i-th element
RemoveAt(a, i) == SubSeq(a, 1, i - 1) \o SubSeq(a, i + 1, Len(a))

\* random.sample(population, k): k elements at distinct positions, in any order
RECURSIVE Sample(_, _)
Sample(population, k) ==
    IF k = 0 THEN {<< >>}
    ELSE UNION {{<<population[i]>> \o s : s \in Sample(RemoveAt(population, i), k - 1)} :
                   i \in 1..Len(population)}

\* random.sample raises ValueError
SampleRaises(population, k) == k < 0 \/ k > Len(population)

\* m or default
Or(d, key, default) == IF key \in DOMAIN d /\ d[key] # 0 THEN d[key] ELSE default

\* the bipartite branch: the two parts, the edge count and the population
BipartiteCount(d) ==
    LET n == Get(d, "n", 10)
        part1_size == n \div 2
        part1 == Range(1, part1_size + 1)
        part2 == Range(part1_size + 1, n + 1)
    IN  Min(Or(d, "m", n * 3), Len(part1) * Len(part2))

BipartitePopulation(d) ==
    LET n == Get(d, "n", 10)
        part1_size == n \div 2
    IN  BipartitePossibleEdges(Range(1, part1_size + 1), Range(part1_size + 1, n + 1))

\* the else branch: "undirected" or "directed"
RandomPopulation(d) ==
    IF Get(d, "graph_type", "undirected") = "directed"
    THEN DirectedPossibleEdges(Get(d, "n", 10))
    ELSE CompleteEdges(Get(d, "n", 10))

RandomCount(d) ==
    LET n == Get(d, "n", 10)
    IN  Min(Get(d, "m", Min(n * 2, (n * (n - 1)) \div 2)), Len(RandomPopulation(d)))

\* the topologies with a branch of their own; any other tag takes the else branch
Sampled(d) == Get(d, "graph_type", "undirected") \notin {"line", "tree", "complete"}

\* the edge count and the population of the branches that call random.sample
SampleCount(d) ==
    IF Get(d, "graph_type", "undirected") = "bipartite" THEN BipartiteCount(d)
    ELSE RandomCount(d)

SamplePopulation(d) ==
    IF Get(d, "graph_type", "undirected") = "bipartite" THEN BipartitePopulation(d)
    ELSE RandomPopulation(d)

\* [(u, v, random.randint(min_weight, max_weight)) for u, v in edges]
WeightedEdgeLists(es, d) ==
    IF Get(d, "weights", FALSE)
    THEN {[i \in 1..Len(es) |-> <<es[i][1], es[i][2], ws[i]>>] :
             ws \in [1..Len(es) -> Randint(Get(d, "min_weight", 1), Get(d, "max_weight", 1000))]}
    ELSE {es}

\* the lines after the header: "u v\n" or "u v w\n"
RECURSIVE EdgeLinesText(_)
EdgeLinesText(es) ==
    IF es = << >> THEN << >>
    ELSE Join(<<" ">>, Head(es)) \o <<"\n">> \o EdgeLinesText(Tail(es))

\* the text the "with" block writes
GraphInputText(n, count, es) ==
    Str(n) \o <<" ">> \o Str(count) \o <<"\n">> \o EdgeLinesText(es)

(***************************************************************************)
(* GraphSpec: one call of the graph strategy's generate_case.  The         *)
(* parameters carry small weight ranges: a call with weights and without   *)
(* max_weight draws from 1..1000 and is not enumerated.                    *)
(***************************************************************************)
Topologies == {"line", "tree", "complete", "bipartite", "undirected", "directed"}

WeightKeys == [weights |-> TRUE, min_weight |-> 1, max_weight |-> MaxWeight]

GraphParams ==
    {[n |-> k, graph_type |-> t] : k \in 0..MaxTreeNodes, t \in {"line", "tree", "complete"}}
    \cup {[n |-> k, m |-> c, graph_type |-> t] :
             k \in 0..MaxNodes, c \in (-1)..MaxM, t \in {"bipartite", "undirected", "directed"}}
    \cup {[n |-> k] : k \in 0..MaxWeightedNodes}
    \cup UNION {{[n |-> k, graph_type |-> t],
                 [n |-> k, graph_type |-> t] @@ WeightKeys,
                 [n |-> k, m |-> c, graph_type |-> t] @@ WeightKeys} :
                   k \in 0..MaxWeightedNodes, c \in 0..MaxM, t \in Topologies}

GraphInit ==
    /\ RunIdle
    /\ family = "graph"
    /\ params \in GraphParams
    /\ arr = << >>
    /\ queries = << >>
    /\ input_text = NoFile
    /\ output_text = NoFile
    /\ written_by = "none"
    /\ cpc = "gen"
    /\ edges = << >>
    /\ m = 0
    /\ connected = {}
    /\ remaining = {}

\* "if weights:" and the "with" block, for the edge list es and the edge count
GraphWrite(es, count) ==
    \E weighted \in WeightedEdgeLists(es, params) :
        /\ edges' = weighted
        /\ m' = count
        /\ input_text' = File(GraphInputText(Get(params, "n", 10), count, weighted))
        /\ cpc' = "run"

\* generate_case up to the end of the "with" block, every branch but "tree"
GraphGenerateInput ==
    /\ cpc = "gen"
    /\ family = "graph"
    /\ Get(params, "graph_type", "undirected") # "tree"
    /\ LET n == Get(params, "n", 10)
           graph_type == Get(params, "graph_type", "undirected")
       IN  IF graph_type = "line" THEN GraphWrite(LineEdges(n), n - 1)
           ELSE IF graph_type = "complete"
                THEN GraphWrite(CompleteEdges(n), (n * (n - 1)) \div 2)
           ELSE IF SampleRaises(SamplePopulation(params), SampleCount(params))
                THEN /\ cpc' = "synth_raised"
                     /\ UNCHANGED <<edges, m, input_text>>
           ELSE \E es \in Sample(SamplePopulation(params), SampleCount(params)) :
                    GraphWrite(es, SampleCount(params))
    /\ UNCHANGED <<family, params, arr, queries, output_text, written_by>>
    /\ UNCHANGED <<connected, remaining>>
    /\ UNCHANGED runVars

\* the "tree" branch up to the loop
GraphTreeBegin ==
    /\ cpc = "gen"
    /\ family = "graph"
    /\ Get(params, "graph_type", "undirected") = "tree"
    /\ edges' = << >>
    /\ connected' = {1}
    /\ remaining' = 2..Get(params, "n", 10)
    /\ cpc' = "tree"
    /\ UNCHANGED <<family, params, arr, queries, input_text, output_text, written_by, m>>
    /\ UNCHANGED runVars

\* u = random.choice(list(connected)); v = random.choice(list(remaining))
TreeChoicesAnyNode(conn, rem) == (conn \cup rem) \X rem

TreeChoices(conn, rem) == conn \X rem

\* one iteration of "while remaining:"
GraphTreeStep ==
    /\ cpc = "tree"
    /\ remaining # {}
    /\ \E c \in TreeChoices(connected, remaining) :
         /\ edges' = Append(edges, c)
         /\ connected' = connected \cup {c[2]}
         /\ remaining' = remaining \ {c[2]}
    /\ UNCHANGED <<family, params, arr, queries, input_text, output_text, written_by, cpc, m>>
    /\ UNCHANGED runVars

\* the loop is left: m = n - 1, then the weights and the "with" block
GraphTreeEnd ==
    /\ cpc = "tree"
    /\ remaining = {}
    /\ GraphWrite(edges, Get(params, "n", 10) - 1)
    /\ UNCHANGED <<family, params, arr, queries, output_text, written_by>>
    /\ UNCHANGED <<connected, remaining>>
    /\ UNCHANGED runVars

\* framework.generate_output_from_solution(input_file, output_file), then the
\* print: the strategy has no generate_output_with_python
GraphRunReference ==
    /\ cpc = "run"
    /\ family = "graph"
    /\ \E o \in RunOutcomes \ Uncaught :
         /\ output_text' = IF o = "ok" THEN File(ReferenceText) ELSE File(<< >>)
         /\ written_by' = IF o = "ok" THEN "ref" ELSE "none"
    /\ cpc' = "done"
    /\ UNCHANGED <<family, params, arr, queries, input_text>>
    /\ UNCHANGED graphVars
    /\ UNCHANGED runVars

GraphNext ==
    \/ GraphGenerateInput
    \/ GraphTreeBegin
    \/ GraphTreeStep
    \/ GraphTreeEnd
    \/ GraphRunReference

GraphSpec == GraphInit /\ [][GraphNext]_vars

(***************************************************************************)
(* Properties of the run.                                                  *)
(***************************************************************************)
\* no .in or .ans file has been written by this run
NoCaseFileWritten == \A f \in FileNames : fs[f] \in {"missing", "stale"}

\* the run has not gone past __init__
StoppedInInit ==
    /\ pc \in {"start", "compile", "load", "exited"}
    /\ strategy = "none"
    /\ log = << >>
    /\ NoCaseFileWritten
    /\ exit_code # "0"
    /\ pc = "exited" => exit_code = "1"

\* C1: when the reference program times out or ends with a non-zero status,
\* generate_output_from_solution returns (the run does not exit), the output file
\* exists with zero length whatever the program had written, and the case ends
\* with the enumeration moving on to the next call.
C1_RunnerDegradesAndContinues ==
    /\ [](outcome \in Degraded =>
            /\ pc \in {"check", "ret"}
            /\ exit_code = "none"
            /\ pc = "check" => fs[OutputFile(CurCase)] = "empty")
    /\ [][(outcome \in Degraded /\ pc = "ret") => (pc' = "call" /\ cur' = cur + 1)]_vars

C1_Witness ==
    /\ pc = "check"
    /\ outcome = "timeout"
    /\ tree = "present"
    /\ fs[OutputFile(CurCase)] = "empty"
    /\ cur < Len(CasesOf(strategy))

SortingExpectedFiles ==
    ({"sample"} \X (1..2) \X {"in", "ans"}) \cup ({"secret"} \X (1..10) \X {"in", "ans"})

\* C2: when the sorting strategy has run to completion, the files present are
\* exactly sample-1, sample-2 and secret-1 .. secret-10, each as .in and .ans,
\* all written by this run, and no .ans file is empty.
C2_SortingEndToEnd ==
    (pc = "done" /\ strategy = "sorting") =>
        /\ {f \in FileNames : Exists(fs[f])} = SortingExpectedFiles
        /\ \A f \in SortingExpectedFiles : fs[f] # "stale"
        /\ \A f \in FileNames : (f[3] = "ans" /\ Exists(fs[f])) => Size(fs[f]) > 0

C2_Witness ==
    /\ pc = "done"
    /\ strategy = "sorting"
    /\ fs[<<"sample", 1, "ans">>] = "fallback"
    /\ fs[<<"secret", 10, "ans">>] = "ref"

\* C3 (the claim as stated): under the sorting and binary-search strategies a
\* reference program that cannot be run (no executable, or one that cannot be
\* started) never ends the run: the case completes with the fallback's output.
C3_UnrunnableReferenceIsAbsorbed ==
    (strategy \in {"sorting", "bsearch"} /\ outcome \in Uncaught) =>
        /\ pc # "exited"
        /\ exit_code # "1"

\* C4 (the claim as stated): a strategy source that cannot be loaded, or whose
\* module lacks generate_all_cases, ends the run in __init__ with status 1.
C4_MissingEntryPointIsFatal ==
    generator_module \in {"missing_file", "no_class", "no_entry"} => StoppedInInit

\* C4 (amended): a strategy source that cannot be loaded, or whose module has no
\* Generator class, ends the run in __init__ with status 1 before any case file is
\* written; a Generator class without generate_all_cases does not: the run goes on
\* with the placeholder enumeration.
C4_LoadFailureIsFatal ==
    /\ generator_module \in {"missing_file", "no_class"} => StoppedInInit
    /\ (generator_module = "no_entry" /\ strategy # "none") => strategy = "default"

C4_Witness ==
    /\ generator_module = "no_class"
    /\ compile_status = "ok"
    /\ pc = "exited"
    /\ exit_code = "1"

\* C5: when the compilation of a .cpp reference fails, the run ends with status 1
\* inside __init__: the directory tree exists, no strategy has been loaded and no
\* case file has been written.
C5_CompileFailureIsFatal ==
    compile_status \in {"failed", "no_compiler"} =>
        /\ pc = "exited"
        /\ exit_code = "1"
        /\ tree = "present"
        /\ executable = "None"
        /\ generator = "None"
        /\ StoppedInInit

C5_Witness ==
    /\ compile_status = "failed"
    /\ generator_module = "sorting"
    /\ pc = "exited"

\* C6: in every enumeration the calls of generate_case are sample 1, sample 2,
\* then secret 1, 2, 3, ... in this order, so that no (scope, case_num) occurs twice.
C6_EnumerationOrder ==
    /\ \A i \in 1..Len(log) :
         log[i] = IF i <= 2 THEN <<"sample", i>> ELSE <<"secret", i - 2>>
    /\ \A i, j \in 1..Len(log) : i # j => log[i] # log[j]
    /\ pc = "done" => Len(log) = Len(CasesOf(strategy))

C6_Witness ==
    /\ pc = "done"
    /\ strategy = "graph"
    /\ Len(log) = 12

(***************************************************************************)
(* Properties of one call of generate_case.                                *)
(***************************************************************************)
P_n == Get(params, "n", 10)

P_min_val == Get(params, "min_val", 1)

P_max_val == Get(params, "max_val", 100)

P_pattern == Get(params, "pattern", "random")

P_q == Get(params, "q", 5)

\* the integers on the second line of the input file
WrittenArray == ParseInts(Split(Strip(ReadLine(input_text.text, 2))))

\* the integers of the output file, one per token
OutputInts == ParseInts(Split(output_text.text))

Generated == cpc \notin {"idle", "gen"}

NonDecreasing(a) == \A i \in 1..(Len(a) - 1) : a[i] <= a[i + 1]

NonIncreasing(a) == \A i \in 1..(Len(a) - 1) : a[i] >= a[i + 1]

Count(a, v) == Cardinality({i \in 1..Len(a) : a[i] = v})

Permutation(a, b) ==
    /\ Len(a) = Len(b)
    /\ \A i \in 1..Len(a) : Count(a, a[i]) = Count(b, a[i])

\* the generation has not raised, and the array, in memory and as written, has
\* exactly n elements, all within [min_val, max_val]
ArrayAsRequested ==
    /\ cpc # "synth_raised"
    /\ Len(arr) = P_n
    /\ \A i \in 1..Len(arr) : P_min_val <= arr[i] /\ arr[i] <= P_max_val
    /\ WrittenArray = arr
    /\ Strip(ReadLine(input_text.text, 1)) = Str(P_n)

\* C7 (the claim as stated): for every n >= 0, every range with min_val <= max_val
\* and every shape tag, the generation succeeds with exactly n integers, each
\* within [min_val, max_val].
C7_EveryShapeInRange == Generated => ArrayAsRequested

\* C7 (amended): the same, where the shape alternating of the sorting strategy is
\* asked for only with min_val <= 0 < max_val.
C7_ShapesInRange ==
    (/\ Generated
     /\ (family = "sorting" /\ P_pattern = "alternating") => (P_min_val <= 0 /\ 0 < P_max_val))
    => ArrayAsRequested

C7_Witness ==
    /\ family = "sorting"
    /\ P_pattern = "alternating"
    /\ P_n = MaxN
    /\ cpc = "run"
    /\ arr[1] < arr[2]

\* C8: the sequence written for ascending is non-decreasing, the one written for
\* descending is non-increasing, and the one written for all_same with n > 0 holds
\* exactly one distinct value.
C8_ShapeOrder ==
    (Generated /\ cpc # "synth_raised") =>
        /\ P_pattern = "ascending" => NonDecreasing(WrittenArray)
        /\ P_pattern = "descending" => NonIncreasing(WrittenArray)
        /\ (P_pattern = "all_same" /\ P_n > 0) =>
              Cardinality({WrittenArray[i] : i \in 1..Len(WrittenArray)}) = 1

C8_Witness ==
    /\ P_pattern = "descending"
    /\ cpc = "run"
    /\ Len(WrittenArray) = MaxN
    /\ WrittenArray[1] > WrittenArray[MaxN]
    /\ WrittenArray[1] >= 10

\* C9: the output the sorting fallback writes is one line holding a permutation of
\* the input array in non-decreasing order, and the fallback run on that output
\* as its input writes the same line again.
C9_FallbackSorts ==
    (family = "sorting" /\ cpc = "done" /\ written_by = "fallback") =>
        /\ output_text.text = Join(<<" ">>, OutputInts) \o <<"\n">>
        /\ NonDecreasing(OutputInts)
        /\ Permutation(OutputInts, arr)
        /\ SortingOutputWithPython(SortingInputText(Len(OutputInts), OutputInts))
             = Written(output_text.text)

C9_Witness ==
    /\ family = "sorting"
    /\ cpc = "done"
    /\ written_by = "fallback"
    /\ Len(arr) = MaxN
    /\ arr[1] > arr[2]
    /\ arr[2] = arr[MaxN]
    /\ arr[1] >= 10

\* C10 (the claim as stated): on every input file of the binary-search case writer,
\* n = 0 included, the fallback completes and writes exactly q lines, the i-th
\* being the number of array elements that are <= the i-th query.
C10_BoundedCountOnEveryInput ==
    (family = "bsearch" /\ (written_by = "fallback" \/ cpc = "fallback_raised")) =>
        /\ cpc = "done"
        /\ Len(Lines(output_text.text)) = P_q
        /\ OutputInts = [i \in 1..P_q |->
                            Cardinality({j \in 1..Len(arr) : arr[j] <= queries[i]})]

(***************************************************************************)
(* The run (Spec) holds of a case only what SynthRaises, FallbackRaises    *)
(* and FallbackOutput say of its parameters; CaseSpec computes the texts.  *)
(* These invariants of CaseSpec state that the two agree.                  *)
(***************************************************************************)
SynthAbstraction ==
    Generated => ((cpc = "synth_raised") <=> SynthRaises(family, params))

FallbackAbstraction ==
    (cpc \in {"done", "fallback_raised"} /\ written_by # "ref") =>
        /\ (cpc = "fallback_raised") <=> FallbackRaises(family, params)
        /\ cpc = "done" =>
              (Len(output_text.text) = 0 <=> FallbackOutput(family, params) = "empty")

(***************************************************************************)
(* Properties of one call of the graph strategy.                           *)
(***************************************************************************)
P_graph_type == Get(params, "graph_type", "undirected")

P_weights == Get(params, "weights", FALSE)

\* the input file has been written
GraphWritten == family = "graph" /\ cpc \in {"run", "done"}

Nodes == 1..P_n

\* the nodes joined to the nodes of S by a path of edges
RECURSIVE ReachableFrom(_)
ReachableFrom(S) ==
    LET T == S \cup {v \in Nodes : \E i \in 1..Len(edges) :
                        \/ edges[i][1] \in S /\ edges[i][2] = v
                        \/ edges[i][2] \in S /\ edges[i][1] = v}
    IN  IF T = S THEN S ELSE ReachableFrom(T)

ConnectedGraph == ReachableFrom({1}) = Nodes

\* a forest: no set of k nodes holds more than k - 1 edges
Acyclic ==
    \A S \in SUBSET Nodes :
        S # {} => Cardinality({i \in 1..Len(edges) : edges[i][1] \in S /\ edges[i][2] \in S})
                      <= Cardinality(S) - 1

EdgesOverNodes == \A i \in 1..Len(edges) : edges[i][1] \in Nodes /\ edges[i][2] \in Nodes

TreeCase == family = "graph" /\ P_graph_type = "tree" /\ P_n >= 1

\* C11: for every node count n >= 1 the "tree" topology terminates (each iteration
\* of its loop joins one more node, so that the edges drawn and the nodes still to
\* join always number n - 1 together) and leaves exactly n - 1 edges over the nodes
\* 1..n that form a connected and acyclic graph; n = 5 gives exactly 4 edges.
C11_TreeIsSpanningTree ==
    TreeCase =>
        /\ cpc = "tree" =>
              /\ Len(edges) + Cardinality(remaining) = P_n - 1
              /\ connected \cup remaining = Nodes
              /\ connected \cap remaining = {}
        /\ GraphWritten =>
              /\ Len(edges) = P_n - 1
              /\ m = P_n - 1
              /\ EdgesOverNodes
              /\ ConnectedGraph
              /\ Acyclic
              /\ P_n = 5 => Len(edges) = 4

C11_Witness ==
    /\ TreeCase
    /\ P_n = 5
    /\ cpc = "done"
    /\ Len(edges) = 4
    /\ ConnectedGraph

\* the number of distinct pairs a topology has over n nodes
MaxDistinctPairs ==
    IF P_graph_type = "directed" THEN P_n * (P_n - 1)
    ELSE IF P_graph_type = "bipartite" THEN (P_n \div 2) * (P_n - (P_n \div 2))
    ELSE (P_n * (P_n - 1)) \div 2

\* a call of a sampled topology that requests an edge count m >= 0
RequestsEdgeCount ==
    /\ family = "graph"
    /\ Sampled(params)
    /\ "m" \in DOMAIN params
    /\ params.m >= 0

\* C12: for the topologies undirected, directed and bipartite and every requested
\* edge count m >= 0, generation never fails, and the number of edges produced is
\* min(m, C(n,2)), min(m, n(n-1)) and min(m, floor(n/2) * ceil(n/2)) respectively.
C12_ClampsToRequestedCount ==
    RequestsEdgeCount =>
        /\ cpc # "synth_raised"
        /\ GraphWritten =>
              /\ Len(edges) = Min(params.m, MaxDistinctPairs)
              /\ m = Len(edges)

(***************************************************************************)
(* Properties of the run: when generate_case calls its fallback evaluator. *)
(***************************************************************************)
\* the output file of the current case is missing or zero-length
OutputMissingOrEmpty == fs[OutputFile(CurCase)] \in {"missing", "empty"}

\* the step that follows the return of the reference runner: the fallback evaluator
\* runs and replaces the missing or empty file, or the non-empty file is left as it is
FallbackExactlyWhenEmpty ==
    IF OutputMissingOrEmpty
    THEN fs'[OutputFile(CurCase)] = "fallback"
    ELSE fs'[OutputFile(CurCase)] = fs[OutputFile(CurCase)]

\* C13 as stated: in the generate_case of every concrete strategy (sorting, binary
\* search, graph) the fallback evaluator is invoked exactly when the output file is
\* missing or zero-length after the reference runner has returned, it then replaces
\* the empty file, and a non-empty reference output is never overwritten.
C13_FallbackInEveryStrategy ==
    [][(pc = "check" /\ CaseImpl \in {"sorting", "bsearch", "graph"})
          => FallbackExactlyWhenEmpty]_vars

\* C13: in the generate_case of the sorting and of the binary-search strategy the
\* fallback evaluator is invoked exactly when the output file is missing or
\* zero-length after the reference runner has returned; for every case of their
\* enumerations it then replaces the empty file by a non-empty one, and a non-empty
\* reference output is never overwritten.  The graph strategy has no fallback
\* evaluator: it leaves the output file as the reference runner left it.
C13_FallbackWhereDefined ==
    [][/\ (pc = "check" /\ CaseImpl \in {"sorting", "bsearch"}) => FallbackExactlyWhenEmpty
       /\ (pc = "check" /\ CaseImpl = "graph") => fs' = fs]_vars

C13_Witness ==
    /\ pc = "ret"
    /\ CaseImpl = "bsearch"
    /\ outcome \in {"ok_empty", "timeout", "nonzero"}
    /\ fs[OutputFile(CurCase)] = "fallback"

(***************************************************************************)
(* Properties of one call of the graph strategy: the input file read back. *)
(***************************************************************************)
InputLines == Lines(input_text.text)

HeaderTokens == Split(Strip(InputLines[1]))

\* the tokens of the k-th line after the header
EdgeTokens(k) == Split(Strip(InputLines[k + 1]))

EdgeLineCount == Len(InputLines) - 1

\* the k-th edge line names the same edge as the j-th: the same pair, in the same
\* order when the graph is directed
SameEdge(j, k) ==
    LET a == ParseInts(EdgeTokens(j))
        b == ParseInts(EdgeTokens(k))
    IN  \/ a[1] = b[1] /\ a[2] = b[2]
        \/ P_graph_type # "directed" /\ a[1] = b[2] /\ a[2] = b[1]

WellFormedEdgeLine(k) ==
    /\ AllIntLiterals(EdgeTokens(k))
    /\ Len(EdgeTokens(k)) = (IF P_weights THEN 3 ELSE 2)
    /\ LET e == ParseInts(EdgeTokens(k))
       IN  /\ e[1] \in Nodes
           /\ e[2] \in Nodes
           /\ e[1] # e[2]

\* C14: for every topology tag and every node count n >= 0, the value m of the
\* header line "n m" equals the number of edge lines that follow, every edge line
\* names two distinct node ids in 1..n, no edge is written twice, and an edge line
\* carries a weight if and only if weights were requested.
C14_GrammarConformance ==
    (GraphWritten /\ P_graph_type \in Topologies /\ P_n >= 0) =>
        /\ Len(HeaderTokens) = 2
        /\ AllIntLiterals(HeaderTokens)
        /\ ParseInt(HeaderTokens[1]) = P_n
        /\ ParseInt(HeaderTokens[2]) = EdgeLineCount
        /\ \A k \in 1..EdgeLineCount : WellFormedEdgeLine(k)
        /\ \A j, k \in 1..EdgeLineCount : j < k => ~SameEdge(j, k)

====
